---- MODULE Spec2Model ----
(***************************************************************************)
(* Model of scripts/parse_ingest_metrics.py: main, parse_file, pick_ms and *)
(* summarize.                                                              *)
(*                                                                         *)
(* Text is modelled as follows.  A string is a sequence of code points.    *)
(* A line is the sequence of its tokens, the maximal pieces between single *)
(* spaces (an empty token stands for two adjacent spaces).  A token is a   *)
(* record [pre, k, v] whose text is pre \o k \o v, where k is one of the   *)
(* literals of the pattern ("ingest_metrics", "table=", "parse_ms=", ...)  *)
(* or "" and pre, v are code point sequences that spell no literal.        *)
(* Timing values are held in thousandths of a millisecond, so that         *)
(* int(us) / 1000.0 is exact.                                              *)
(***************************************************************************)
EXTENDS Integers, Sequences, FiniteSets, TLC

VARIABLES argc, pc, fileOpen, failure, lines, rows, stdout, exitCode

vars == <<argc, pc, fileOpen, failure, lines, rows, stdout, exitCode>>

\* Longest file (number of lines) and longest argument vector explored.
MaxLines == 3
MaxArgc == 2

\* Python's None, as a value no code point sequence equals.
None == << -1 >>

----------------------------------------------------------------------------
\* Strings.

IsDigit(c) == c \in 48..57

AllDigits(s) == \A i \in 1..Len(s) : IsDigit(s[i])

\* int(s) for a string of decimal digits.
RECURSIVE int(_)
int(s) == IF s = <<>> THEN 0
          ELSE int(SubSeq(s, 1, Len(s) - 1)) * 10 + (s[Len(s)] - 48)

\* The text \d+ captures at the start of s when nothing follows it in the
\* pattern: the longest run of digits (greedy), possibly empty.
RECURSIVE DigitRun(_)
DigitRun(s) == IF s = <<>> \/ ~IsDigit(Head(s)) THEN <<>>
               ELSE <<Head(s)>> \o DigitRun(Tail(s))

\* s < t for Python strings: lexicographic on code points.
RECURSIVE StrLess(_, _)
StrLess(s, t) == IF t = <<>> THEN FALSE
                 ELSE IF s = <<>> THEN TRUE
                 ELSE IF Head(s) # Head(t) THEN Head(s) < Head(t)
                 ELSE StrLess(Tail(s), Tail(t))

\* a < b for Python tuples of three strings.
TupleLess(a, b) ==
    \/ StrLess(a[1], b[1])
    \/ a[1] = b[1] /\ StrLess(a[2], b[2])
    \/ a[1] = b[1] /\ a[2] = b[2] /\ StrLess(a[3], b[3])

----------------------------------------------------------------------------
\* The compiled pattern.

Tok(pre, k, v) == [pre |-> pre, k |-> k, v |-> v]

\* The five timing categories in pattern order: the literals of the two
\* alternatives and the names of the groups they capture into.
Fields == <<
    [ms |-> "parse_ms=",    us |-> "parse_us=",    gms |-> "parse_ms", gus |-> "parse_us"],
    [ms |-> "build_ms=",    us |-> "build_us=",    gms |-> "build_ms", gus |-> "build_us"],
    [ms |-> "send_ms=",     us |-> "send_us=",     gms |-> "send_ms",  gus |-> "send_us"],
    [ms |-> "wait_lsn_ms=", us |-> "wait_lsn_us=", gms |-> "wait_ms",  gus |-> "wait_us"],
    [ms |-> "total_ms=",    us |-> "total_us=",    gms |-> "total_ms", gus |-> "total_us"] >>

NumFields == Len(Fields)

GroupNames == {"table", "mode", "op"} \cup
              {Fields[j].gms : j \in 1..NumFields} \cup
              {Fields[j].gus : j \in 1..NumFields}

\* "ingest_metrics" followed by a space: the search is not anchored, so any
\* text may precede the literal in its token, none may follow it.
MarkerAt(line, i) == line[i].k = "ingest_metrics" /\ line[i].v = <<>>

\* "lit" \S+ followed by a space: the whole token, with a non-empty value.
KeyAt(line, i, lit) ==
    line[i].pre = <<>> /\ line[i].k = lit /\ Len(line[i].v) >= 1

\* FieldAt with no token boundary required after any \d+.
FieldAt_loose(line, i, j) ==
    /\ line[i].pre = <<>>
    /\ line[i].k \in {Fields[j].ms, Fields[j].us}
    /\ DigitRun(line[i].v) # <<>>

\* Timing category j at token i.  The first four are followed by a space in
\* the pattern, so \d+ must reach the end of the token; nothing follows the
\* fifth, so \d+ need only find one digit.
FieldAt(line, i, j) ==
    /\ line[i].pre = <<>>
    /\ line[i].k \in {Fields[j].ms, Fields[j].us}
    /\ IF j < NumFields
       THEN Len(line[i].v) >= 1 /\ AllDigits(line[i].v)
       ELSE DigitRun(line[i].v) # <<>>

\* The pattern matches starting in token i.
MatchAt(line, i) ==
    /\ i + 3 + NumFields <= Len(line)
    /\ MarkerAt(line, i)
    /\ KeyAt(line, i + 1, "table=")
    /\ KeyAt(line, i + 2, "mode=")
    /\ KeyAt(line, i + 3, "op=")
    /\ \A j \in 1..NumFields : FieldAt(line, i + 3 + j, j)

\* m.groupdict() of the match starting in token i.
groupdict(line, i) ==
    [g \in GroupNames |->
        IF g = "table" THEN line[i + 1].v
        ELSE IF g = "mode" THEN line[i + 2].v
        ELSE IF g = "op" THEN line[i + 3].v
        ELSE LET j == CHOOSE n \in 1..NumFields : g \in {Fields[n].gms, Fields[n].gus}
                 t == line[i + 3 + j]
                 lit == IF g = Fields[j].gms THEN Fields[j].ms ELSE Fields[j].us
             IN IF t.k # lit THEN None
                ELSE IF j < NumFields THEN t.v ELSE DigitRun(t.v)]

\* pattern.search(line): the leftmost match, or no match.
pattern_search(line) ==
    LET starts == {i \in 1..Len(line) : MatchAt(line, i)}
    IN IF starts = {} THEN [ok |-> FALSE, d |-> [g \in GroupNames |-> None]]
       ELSE [ok |-> TRUE,
             d |-> groupdict(line, CHOOSE i \in starts : \A k \in starts : i <= k)]

----------------------------------------------------------------------------
\* parse_file.

\* Truth value of d.get(key): None and the empty string are false.
Truthy(x) == x # None /\ x # <<>>

\* Thousandths in one millisecond: the divisor of int(d[us_key]) / 1000.0.
Scale == 1000

\* pick_ms that takes the microsecond value as milliseconds.
pick_ms_nodiv(d, ms_key, us_key) ==
    IF Truthy(d[us_key]) THEN int(d[us_key]) * Scale
    ELSE IF Truthy(d[ms_key]) THEN int(d[ms_key]) * Scale
    ELSE 0

\* pick_ms(ms_key, us_key) over the groupdict d, in thousandths of a ms.
pick_ms(d, ms_key, us_key) ==
    IF Truthy(d[us_key]) THEN int(d[us_key])
    ELSE IF Truthy(d[ms_key]) THEN int(d[ms_key]) * Scale
    ELSE 0

\* The dict appended to rows for a match with groupdict d.
Record(d) ==
    [table |-> d["table"], mode |-> d["mode"], op |-> d["op"],
     parse |-> pick_ms(d, "parse_ms", "parse_us"),
     build |-> pick_ms(d, "build_ms", "build_us"),
     send  |-> pick_ms(d, "send_ms", "send_us"),
     wait  |-> pick_ms(d, "wait_ms", "wait_us"),
     total |-> pick_ms(d, "total_ms", "total_us")]

\* The loop body written with finditer: a record for every occurrence.
RECURSIVE RecordsFrom(_, _)
RecordsFrom(line, i) ==
    IF i > Len(line) THEN <<>>
    ELSE (IF MatchAt(line, i) THEN <<Record(groupdict(line, i))>> ELSE <<>>)
         \o RecordsFrom(line, i + 1)

parse_line_each(rs, line) == rs \o RecordsFrom(line, 1)

\* One iteration of the for loop: rows after the line is processed.
parse_line(rs, line) ==
    LET m == pattern_search(line)
    IN IF ~m.ok THEN rs ELSE Append(rs, Record(m.d))

\* A file object that is never closed.
file_exit_leak(open) == open

\* File state when the with block is left, normally or by an exception.
file_exit(open) == FALSE

----------------------------------------------------------------------------
\* summarize.

TimingNames == <<"parse", "build", "send", "wait", "total">>

\* Grouping that starts a new list for every record.
setdefault_append_new(by, key, r) == Append(by, [key |-> key, items |-> <<r>>])

\* by_key.setdefault(key, []).append(r); by_key is kept as the sequence of
\* its (key, items) pairs in insertion order.
setdefault_append(by, key, r) ==
    IF \E i \in 1..Len(by) : by[i].key = key
    THEN [i \in 1..Len(by) |->
             IF by[i].key = key
             THEN [key |-> key, items |-> Append(by[i].items, r)]
             ELSE by[i]]
    ELSE Append(by, [key |-> key, items |-> <<r>>])

\* The loop building by_key from rows.
RECURSIVE GroupRows(_)
GroupRows(rs) ==
    IF rs = <<>> THEN <<>>
    ELSE LET r == rs[Len(rs)]
         IN setdefault_append(GroupRows(SubSeq(rs, 1, Len(rs) - 1)),
                              <<r.table, r.mode, r.op>>, r)

\* Insert pair p into the ascending sequence s, after its equals (stable).
RECURSIVE Insert(_, _)
Insert(s, p) ==
    IF s = <<>> THEN <<p>>
    ELSE IF TupleLess(p.key, Head(s).key) THEN <<p>> \o s
    ELSE <<Head(s)>> \o Insert(Tail(s), p)

\* by_key.items() left in insertion order.
sorted_none(s) == s

\* sorted(by_key.items()): the keys are distinct, so the pairs are ordered
\* by key alone.
RECURSIVE sorted(_)
sorted(s) ==
    IF s = <<>> THEN <<>>
    ELSE Insert(sorted(SubSeq(s, 1, Len(s) - 1)), s[Len(s)])

RECURSIVE SumField(_, _)
SumField(items, f) ==
    IF items = <<>> THEN 0
    ELSE items[1][f] + SumField(Tail(items), f)

\* A mean over the number of all records.
mean_all(items, f) == [num |-> SumField(items, f), den |-> Len(rows)]

\* mean(i[f] for i in items) as the exact fraction num / den of thousandths.
mean(items, f) == [num |-> SumField(items, f), den |-> Len(items)]

\* format(q, ".1f") of q thousandths: <<whole part, decimal digit>>.  The
\* nearest tenth; a tie of the values used here (multiples of half a
\* millisecond, fewer than ten per group) is a binary fraction, which the
\* float holds exactly and the format rounds to the even digit.
Format1(q) ==
    LET unit == (Scale \div 10) * q.den
        t == q.num \div unit
        r == q.num % unit
        tenths == IF 2 * r < unit THEN t
                  ELSE IF 2 * r > unit THEN t + 1
                  ELSE IF t % 2 = 0 THEN t ELSE t + 1
    IN <<tenths \div 10, tenths % 10>>

OutLine(kind, cols) == [kind |-> kind, cols |-> cols]

UsageLine == OutLine("Usage: parse_ingest_metrics.py <log_file>", <<>>)
NoDataLine == OutLine("No ingest_metrics lines found", <<>>)
TitleLine == OutLine("Averages by (table, mode, op):", <<>>)
HeaderCols == <<"table", "mode", "op", "count", "parse_ms", "build_ms",
                "send_ms", "wait_lsn_ms", "total_ms">>
HeaderLine == OutLine("header", HeaderCols)

\* The line printed for one (key, items) pair.
RowLine(p) ==
    OutLine("row", <<p.key[1], p.key[2], p.key[3], Len(p.items)>> \o
                   [n \in 1..Len(TimingNames) |->
                       Format1(mean(p.items, TimingNames[n]))])

\* summarize without the title line.
summarize_untitled(rs) ==
    IF rs = <<>> THEN <<NoDataLine>>
    ELSE LET s == sorted(GroupRows(rs))
         IN <<HeaderLine>> \o [n \in 1..Len(s) |-> RowLine(s[n])]

\* summarize without the return after the no-data message.
summarize_fallthrough(rs) ==
    LET s == sorted(GroupRows(rs))
    IN (IF rs = <<>> THEN <<NoDataLine>> ELSE <<>>) \o
       <<TitleLine, HeaderLine>> \o [n \in 1..Len(s) |-> RowLine(s[n])]

\* The lines summarize(rows) prints, in order.
summarize(rs) ==
    IF rs = <<>> THEN <<NoDataLine>>
    ELSE LET s == sorted(GroupRows(rs))
         IN <<TitleLine, HeaderLine>> \o [n \in 1..Len(s) |-> RowLine(s[n])]

----------------------------------------------------------------------------
\* The lines a log file may hold.

\* str(n): the decimal digits of a natural number.
RECURSIVE Dec(_)
Dec(n) == IF n < 10 THEN <<48 + n>> ELSE Dec(n \div 10) \o <<48 + (n % 10)>>

Marker == Tok(<<>>, "ingest_metrics", <<>>)

\* "ingest_metrics table=.. mode=.. op=.." for the key triple.
KeyToks(key) ==
    <<Marker, Tok(<<>>, "table=", key[1]), Tok(<<>>, "mode=", key[2]),
      Tok(<<>>, "op=", key[3])>>

\* The five timing tokens of a profile, a sequence of <<unit, value>>.
FieldToks(prof) ==
    [j \in 1..NumFields |->
        Tok(<<>>, IF prof[j][1] = "us" THEN Fields[j].us ELSE Fields[j].ms,
            Dec(prof[j][2]))]

MetricLine(key, prof) == KeyToks(key) \o FieldToks(prof)

\* The keys (a, x, y), (b, x, y) and (a, X, y).
KeyA == <<(<<97>>), (<<120>>), (<<121>>)>>
KeyB == <<(<<98>>), (<<120>>), (<<121>>)>>
KeyC == <<(<<97>>), (<<88>>), (<<121>>)>>

Mixed == << <<"ms", 10>>, <<"us", 5000>>, <<"ms", 2>>, <<"us", 1000>>, <<"ms", 13>> >>
Ten == << <<"ms", 1>>, <<"ms", 1>>, <<"ms", 1>>, <<"ms", 1>>, <<"ms", 10>> >>
Twenty == << <<"us", 0>>, <<"us", 1500>>, <<"us", 500>>, <<"ms", 0>>, <<"ms", 20>> >>

GoodLines == {MetricLine(KeyB, Mixed), MetricLine(KeyA, Ten),
              MetricLine(KeyA, Twenty)}

\* The line without its token i.
Drop(line, i) == SubSeq(line, 1, i - 1) \o SubSeq(line, i + 1, Len(line))

\* The line with the letter "a" put after the value of token i.
GarbleEnd(line, i) == [line EXCEPT ![i].v = @ \o <<97>>]

\* Lines with the marker and the key of a metric line and one timing field
\* missing (the last) or not an integer (each of the five).
NearLines ==
    LET base == MetricLine(KeyA, Ten)
    IN {Drop(base, 4 + NumFields)} \cup
       {GarbleEnd(base, 4 + j) : j \in 1..NumFields}

\* An empty line, a metric record inside other text
\* ("2 [ingest_metrics table=a mode=X .. total_ms=20 y"), two records on one line,
\* and a broken record followed by a well-formed one.
OtherLines ==
    {<<Tok(<<>>, "", <<>>)>>,
     <<Tok(<<50>>, "", <<>>)>> \o
         [MetricLine(KeyC, Twenty) EXCEPT ![1].pre = <<91>>] \o
         <<Tok(<<121>>, "", <<>>)>>,
     MetricLine(KeyB, Ten) \o MetricLine(KeyA, Twenty),
     GarbleEnd(MetricLine(KeyA, Ten), 5) \o MetricLine(KeyB, Mixed)}

Lines == GoodLines \cup NearLines \cup OtherLines

----------------------------------------------------------------------------
\* The run of the script.

\* An argument check that is off by one.
missing_arg_off(n) == n < 1

\* len(sys.argv) < 2
missing_arg(n) == n < 2

Init ==
    /\ argc \in 1..MaxArgc
    /\ pc = "main"
    /\ fileOpen = FALSE
    /\ failure = "none"
    /\ lines = <<>>
    /\ rows = <<>>
    /\ stdout = <<>>
    /\ exitCode = -1

\* No argument: print the usage line and sys.exit(1).
Usage ==
    /\ pc = "main"
    /\ missing_arg(argc)
    /\ stdout' = Append(stdout, UsageLine)
    /\ exitCode' = 1
    /\ pc' = "done"
    /\ UNCHANGED <<argc, fileOpen, failure, lines, rows>>

\* parse_file: open(path) succeeds and the with block is entered.
OpenOk ==
    /\ pc = "main"
    /\ ~missing_arg(argc)
    /\ fileOpen' = TRUE
    /\ rows' = <<>>
    /\ pc' = "scan"
    /\ UNCHANGED <<argc, failure, lines, stdout, exitCode>>

\* parse_file: open(path) raises; nothing catches it and the interpreter
\* exits with status 1.
OpenFail ==
    /\ pc = "main"
    /\ ~missing_arg(argc)
    /\ failure' = "open"
    /\ exitCode' = 1
    /\ pc' = "done"
    /\ UNCHANGED <<argc, fileOpen, lines, rows, stdout>>

\* One iteration of "for line in f".
ReadLine ==
    /\ pc = "scan"
    /\ Len(lines) < MaxLines
    /\ \E line \in Lines :
          /\ lines' = Append(lines, line)
          /\ rows' = parse_line(rows, line)
    /\ UNCHANGED <<argc, pc, fileOpen, failure, stdout, exitCode>>

\* Reading the next line raises (an I/O error): the with block closes the
\* file, the exception propagates and the interpreter exits with status 1.
ReadError ==
    /\ pc = "scan"
    /\ fileOpen' = file_exit(fileOpen)
    /\ failure' = "read"
    /\ exitCode' = 1
    /\ pc' = "done"
    /\ UNCHANGED <<argc, lines, rows, stdout>>

\* The file is exhausted: the with block closes it and parse_file returns.
EndOfFile ==
    /\ pc = "scan"
    /\ fileOpen' = file_exit(fileOpen)
    /\ pc' = "summarize"
    /\ UNCHANGED <<argc, failure, lines, rows, stdout, exitCode>>

\* summarize(rows), then the script ends and the interpreter exits with 0.
Summarize ==
    /\ pc = "summarize"
    /\ stdout' = stdout \o summarize(rows)
    /\ exitCode' = 0
    /\ pc' = "done"
    /\ UNCHANGED <<argc, fileOpen, failure, lines, rows>>

Next ==
    \/ Usage
    \/ OpenOk
    \/ OpenFail
    \/ ReadLine
    \/ ReadError
    \/ EndOfFile
    \/ Summarize

Spec == Init /\ [][Next]_vars

TypeOK ==
    /\ argc \in 1..MaxArgc
    /\ pc \in {"main", "scan", "summarize", "done"}
    /\ fileOpen \in BOOLEAN
    /\ failure \in {"none", "open", "read"}
    /\ Len(lines) <= MaxLines
    /\ Len(rows) <= Len(lines)
    /\ exitCode \in {-1, 0, 1}

----------------------------------------------------------------------------
\* Properties.

\* The line contains a substring the pattern matches.
Matches(line) == \E i \in 1..Len(line) : MatchAt(line, i)

\* The (table, mode, op) triple of a matching line.
LineKey(line) ==
    LET d == pattern_search(line).d IN <<d["table"], d["mode"], d["op"]>>

\* Positions in the file of the matching lines read so far.
MatchIdx == {n \in 1..Len(lines) : Matches(lines[n])}

ObservedKeys == {LineKey(lines[n]) : n \in MatchIdx}

\* The run had an argument, read the file to its end and printed the report.
Summarised == pc = "done" /\ argc >= 2 /\ failure = "none"

\* Positions in the output of the group lines, and the key of a group line.
RowIdx == {n \in 1..Len(stdout) : stdout[n].kind = "row"}
RowKey(l) == <<l.cols[1], l.cols[2], l.cols[3]>>

\* C1: the keys of the printed group lines are exactly the distinct
\* (table, mode, op) triples of the matching lines, each printed once.
C1_KeysExact ==
    Summarised =>
        /\ {RowKey(stdout[n]) : n \in RowIdx} = ObservedKeys
        /\ \A m, n \in RowIdx : m # n => RowKey(stdout[m]) # RowKey(stdout[n])

C1_Witness ==
    /\ Summarised
    /\ Cardinality(MatchIdx) = 3
    /\ Cardinality(ObservedKeys) = 2
    /\ Cardinality(RowIdx) = 2

\* The marker and the three key tokens stand at token i.
StructAt(line, i) ==
    /\ i + 3 <= Len(line)
    /\ line[i].k = "ingest_metrics" /\ line[i].v = <<>>
    /\ \A n \in 1..3 :
          /\ line[i + n].pre = <<>>
          /\ line[i + n].k = <<"table=", "mode=", "op=">>[n]
          /\ line[i + n].v # <<>>

\* Token p of the line is the timing pair of category j, up to its value.
HasFieldKey(line, p, j) ==
    /\ p <= Len(line)
    /\ line[p].pre = <<>>
    /\ line[p].k \in {Fields[j].ms, Fields[j].us}

\* Category j after the structure at i is missing or not purely an integer.
FieldBad(line, i, j) ==
    \/ ~HasFieldKey(line, i + 3 + j, j)
    \/ line[i + 3 + j].v = <<>>
    \/ \E c \in 1..Len(line[i + 3 + j].v) : line[i + 3 + j].v[c] \notin 48..57

\* The same, except that a total is bad only when it is missing or its value
\* does not begin with a digit.
FieldBadLeading(line, i, j) ==
    IF j < NumFields THEN FieldBad(line, i, j)
    ELSE \/ ~HasFieldKey(line, i + 3 + j, j)
         \/ line[i + 3 + j].v = <<>>
         \/ line[i + 3 + j].v[1] \notin 48..57

\* The line has the marker and key structure, and wherever it has it one of
\* the five timing fields is bad.
NearMiss(line, Bad(_, _, _)) ==
    /\ \E i \in 1..Len(line) : StructAt(line, i)
    /\ \A i \in 1..Len(line) :
          StructAt(line, i) => \E j \in 1..NumFields : Bad(line, i, j)

\* The step reads one line of the file.
ReadsLine == pc = "scan" /\ Len(lines') = Len(lines) + 1

\* C2 as stated: a line with the marker and key structure and any one of the
\* five timing fields missing or not purely an integer adds no record and
\* prints nothing.
C2_Original ==
    [][ReadsLine /\ NearMiss(lines'[Len(lines')], FieldBad)
         => rows' = rows /\ stdout' = stdout]_vars

\* C2 amended: the same for the first four fields and for a total that is
\* missing or does not begin with a digit; a line whose only flaw is text
\* after the digits of the total adds one record, whose total is those digits.
C2_NoPartialRecord ==
    [][ReadsLine =>
        LET line == lines'[Len(lines')]
        IN /\ NearMiss(line, FieldBadLeading)
                => rows' = rows /\ stdout' = stdout
           /\ NearMiss(line, FieldBad) /\ ~NearMiss(line, FieldBadLeading)
                => /\ Len(rows') = Len(rows) + 1
                   /\ stdout' = stdout
                   /\ \E i \in 1..Len(line) :
                         /\ StructAt(line, i)
                         /\ rows'[Len(rows')].total =
                              int(DigitRun(line[i + 3 + NumFields].v)) *
                              (IF line[i + 3 + NumFields].k = "total_us=" THEN 1 ELSE 1000)]_vars

C2_Witness ==
    /\ pc = "scan"
    /\ Len(lines) = 3
    /\ Len(rows) = 1
    /\ stdout = <<>>
    /\ NearMiss(lines[1], FieldBadLeading)
    /\ \E i \in 1..Len(lines[1]) : StructAt(lines[1], i) /\ FieldBad(lines[1], i, 1)
    /\ NearMiss(lines[2], FieldBadLeading)
    /\ \E i \in 1..Len(lines[2]) :
          /\ StructAt(lines[2], i)
          /\ \A j \in 1..(NumFields - 1) : ~FieldBad(lines[2], i, j)
    /\ NearMiss(lines[3], FieldBad) /\ ~NearMiss(lines[3], FieldBadLeading)

\* C3 as stated: without an argument the run prints the usage line, exits
\* with 1 and opens no file; every other run exits with 0.
C3_Original ==
    pc = "done" =>
        IF argc < 2
        THEN exitCode = 1 /\ Len(stdout) = 1 /\ stdout[1].kind = UsageLine.kind
        ELSE exitCode = 0

\* C3 amended: without an argument the run never opens a file, prints only
\* the usage line and exits with 1; with an argument it exits with 0 when
\* the file was opened and read to its end, and with 1 when opening or
\* reading it raised.
C3_ExitCodes ==
    /\ argc < 2 => /\ ~fileOpen /\ lines = <<>> /\ failure = "none"
                   /\ pc \in {"main", "done"}
                   /\ \A n \in 1..Len(stdout) : stdout[n].kind = UsageLine.kind
    /\ pc = "done" /\ argc < 2 => exitCode = 1 /\ Len(stdout) = 1
    /\ pc = "done" /\ argc >= 2 =>
          exitCode = (IF failure = "none" THEN 0 ELSE 1)
    /\ pc # "done" => exitCode = -1

C3_Witness == pc = "done" /\ argc < 2 /\ exitCode = 1 /\ Len(stdout) = 1

IsHeader(l) == l.kind = "header" /\ l.cols = HeaderCols

\* C4 as stated: with at least one record the header is the first line
\* printed and the output has 1 + (number of groups) lines.
C4_Original ==
    Summarised /\ MatchIdx # {} =>
        /\ IsHeader(stdout[1])
        /\ Len(stdout) = 1 + Cardinality(ObservedKeys)

\* C4 amended: with at least one record the output is the title line, then
\* the header naming the nine columns, then exactly one line per group:
\* the header is the second line and there are 2 + (number of groups) lines.
C4_TitleHeaderRows ==
    Summarised /\ MatchIdx # {} =>
        /\ Len(stdout) = 2 + Cardinality(ObservedKeys)
        /\ stdout[1].kind = "Averages by (table, mode, op):"
        /\ IsHeader(stdout[2])
        /\ \A n \in 3..Len(stdout) : stdout[n].kind = "row"

C4_Witness ==
    /\ Summarised
    /\ Cardinality(MatchIdx) = 3
    /\ Cardinality(ObservedKeys) = 2
    /\ Len(stdout) = 4

\* The matching lines read so far, in file order.
MatchedLines == SelectSeq(lines, Matches)

\* The token in which the leftmost match of the line starts.
FirstMatch(line) ==
    CHOOSE i \in 1..Len(line) :
        MatchAt(line, i) /\ \A k \in 1..(i - 1) : ~MatchAt(line, k)

\* C5: when parse_file returns, every record's timing value is, per
\* category, the captured microsecond integer over 1000 if the line gives
\* microseconds (0 included) and the captured millisecond integer if it
\* gives milliseconds; the mixed line yields 10, 5, 2, 1 and 13 ms; no value
\* is negative.  (Values are in thousandths of a millisecond.)
C5_Normalised ==
    pc = "summarize" =>
    LET ml == MatchedLines
    IN /\ Len(rows) = Len(ml)
       /\ \A n \in 1..Len(rows) :
             LET i == FirstMatch(ml[n])
             IN /\ \A j \in 1..NumFields :
                      LET t == ml[n][i + 3 + j]
                          val == rows[n][TimingNames[j]]
                      IN /\ val >= 0
                         /\ t.k = Fields[j].us => val = int(DigitRun(t.v))
                         /\ t.k = Fields[j].ms => val = 1000 * int(DigitRun(t.v))
                /\ ml[n] = MetricLine(KeyB, Mixed) =>
                      /\ rows[n].parse = 10000 /\ rows[n].build = 5000
                      /\ rows[n].send = 2000 /\ rows[n].wait = 1000
                      /\ rows[n].total = 13000

C5_Witness ==
    /\ pc = "summarize"
    /\ Len(rows) = 2
    /\ lines[1] = MetricLine(KeyB, Mixed)
    /\ rows[1].build = 5000
    /\ Len(lines) = 2
    /\ pattern_search(lines[2]).d["parse_us"] = <<48>>
    /\ rows[2].parse = 0

\* Sum of a timing field over the first n records that carry the key.
RECURSIVE KeySum(_, _, _)
KeySum(n, key, f) ==
    IF n = 0 THEN 0
    ELSE KeySum(n - 1, key, f) +
         (IF <<rows[n].table, rows[n].mode, rows[n].op>> = key
          THEN rows[n][f] ELSE 0)

KeyCount(key) ==
    Cardinality({n \in 1..Len(rows) :
                    <<rows[n].table, rows[n].mode, rows[n].op>> = key})

\* C6: each value of a group line is the sum of the field over the records
\* with exactly that key, divided by the number of those records, to the
\* nearest tenth; totals 10 and 20 of one key print 15.0 with count 2.
C6_GroupMean ==
    Summarised =>
        \A n \in RowIdx :
            LET l == stdout[n]
                c == KeyCount(RowKey(l))
            IN /\ c >= 1
               /\ l.cols[4] = c
               /\ \A j \in 1..NumFields :
                     LET sum == KeySum(Len(rows), RowKey(l), TimingNames[j])
                         tenths == 10 * l.cols[4 + j][1] + l.cols[4 + j][2]
                         diff == sum - tenths * 100 * c
                     IN /\ l.cols[4 + j][2] \in 0..9
                        /\ 2 * diff <= 100 * c
                        /\ -2 * diff <= 100 * c
               /\ c = 2 /\ KeySum(Len(rows), RowKey(l), "total") = 30000
                     => l.cols[9] = <<15, 0>>

C6_Witness ==
    /\ Summarised
    /\ Cardinality(RowIdx) = 2
    /\ \E n \in RowIdx :
          /\ stdout[n].cols[4] = 2
          /\ stdout[n].cols[9] = <<15, 0>>
          /\ {rows[m].total : m \in {k \in 1..Len(rows) :
                 <<rows[k].table, rows[k].mode, rows[k].op>> = RowKey(stdout[n])}}
               = {10000, 20000}

RECURSIVE CountSum(_)
CountSum(n) ==
    IF n = 0 THEN 0
    ELSE CountSum(n - 1) + (IF stdout[n].kind = "row" THEN stdout[n].cols[4] ELSE 0)

\* C7: when parse_file returns there is one record per matching line of the
\* file and none for other lines;
\* a group's count is the number of matching lines with its key and the
\* counts sum to the number of matching lines; a line with several
\* well-formed substrings counts once.
C7_OneRecordPerMatch ==
    /\ pc = "summarize" => Len(rows) = Cardinality(MatchIdx)
    /\ Summarised =>
          /\ \A n \in RowIdx :
                stdout[n].cols[4] =
                    Cardinality({m \in MatchIdx : LineKey(lines[m]) = RowKey(stdout[n])})
          /\ CountSum(Len(stdout)) = Cardinality(MatchIdx)

C7_Witness ==
    /\ Summarised
    /\ Len(lines) = 3
    /\ Len(rows) = 2
    /\ \E n \in 1..Len(lines) :
          Cardinality({i \in 1..Len(lines[n]) : MatchAt(lines[n], i)}) = 2
    /\ CountSum(Len(stdout)) = 2

\* C8: the group lines are printed in strictly ascending order of
\* (table, mode, op), whatever the order of the lines in the file:
\* (a, x, y) before (b, x, y), and (a, X, y) before (a, x, y).
C8_Ascending ==
    Summarised =>
        \A m, n \in RowIdx :
            /\ m < n => TupleLess(RowKey(stdout[m]), RowKey(stdout[n]))
            /\ RowKey(stdout[m]) = KeyA /\ RowKey(stdout[n]) = KeyB => m < n
            /\ RowKey(stdout[m]) = KeyC /\ RowKey(stdout[n]) = KeyA => m < n

C8_Witness ==
    /\ Summarised
    /\ Len(lines) >= 2
    /\ Matches(lines[1]) /\ LineKey(lines[1]) = KeyB
    /\ Matches(lines[2]) /\ LineKey(lines[2]) = KeyA
    /\ RowKey(stdout[3]) = KeyA
    /\ RowKey(stdout[4]) = KeyB

\* C9: when the file was read and no line matched, the output is the
\* no-data message alone and the exit code is 0; when a line matched the
\* no-data message is never printed.
C9_NoData ==
    /\ Summarised /\ MatchIdx = {} =>
          /\ Len(stdout) = 1
          /\ stdout[1].kind = "No ingest_metrics lines found"
          /\ exitCode = 0
    /\ (\E n \in 1..Len(stdout) : stdout[n].kind = "No ingest_metrics lines found")
          => MatchIdx = {}

C9_Witness ==
    /\ Summarised
    /\ Len(lines) = 2
    /\ MatchIdx = {}
    /\ Len(stdout) = 1
    /\ stdout[1].kind = "No ingest_metrics lines found"

\* C10: the file is open only while parse_file scans it: it is closed when
\* parse_file has returned or raised, hence while summarize prints.
C10_Released ==
    /\ pc \in {"summarize", "done"} => ~fileOpen
    /\ pc = "scan" => fileOpen

C10_Witness ==
    /\ pc = "done"
    /\ failure = "read"
    /\ Len(lines) >= 1
    /\ ~fileOpen

====
